---- MODULE Spec2Model ----
(***************************************************************************)
(* pip-search-two: src/pip_search_two/main.py                              *)
(*                                                                         *)
(* One run of main(): parse the command line, fetch the package listing,   *)
(* filter and rank it (search_packages), cut it to the requested count,    *)
(* look the descriptions up on a thread pool (get_package_info), join the  *)
(* pool and print the result lines.                                        *)
(*                                                                         *)
(* Strings are sequences of code points, so that str.lower(), str.split(), *)
(* the substring test and the string comparison of sorted() are computed   *)
(* as Python computes them.                                                *)
(***************************************************************************)
EXTENDS Integers, Sequences, FiniteSets, TLC

VARIABLES
    pc,                \* position of the main thread
    search_terms,      \* args.search_terms as given on the command line
    count_opt,         \* the -n/--count option: <<>> when absent, <<n>> when given
    count,             \* args.count
    search_term,       \* ' '.join(args.search_terms)
    response,          \* the listing response inside search_packages
    ranked,            \* the value search_packages returns (packages, line 110)
    packages,          \* packages after line 117
    futures,           \* future_to_pkg: one entry per submitted lookup
    package_info,      \* the dict package name -> description
    key_order,         \* the keys of package_info in insertion order (dict order)
    key_writes,        \* how many times each key of package_info was assigned
    stdout,            \* the lines printed so far
    listing_requests,  \* GETs sent to the listing endpoint
    metadata_requests, \* GETs sent to the metadata endpoint
    exit_code          \* -1 while running, then the exit status of the process

vars == <<pc, search_terms, count_opt, count, search_term, response, ranked,
          packages, futures, package_info, key_order, key_writes, stdout,
          listing_requests, metadata_requests, exit_code>>

----------------------------------------------------------------------------
(* Bounds of the model *)

MaxArgs == 3
MaxListing == 2
MaxCount == 2

(* Program constants *)

DefaultCount == 10
max_workers == 10
SummaryLimit == 80

\* 'No description available'
NoDescription ==
    <<78, 111, 32, 100, 101, 115, 99, 114, 105, 112, 116, 105, 111, 110, 32,
      97, 118, 97, 105, 108, 97, 98, 108, 101>>

(* Inputs.  a = 97, b = 98, B = 66, space = 32, d = 100 *)

ArgPool == { <<97>>, <<66>>, <<32>> }

\* the <name> of an anchor <a href="/simple/<name>/">; the empty name is an
\* anchor the pattern does not match
EntryPool == { <<97>>, <<98>>, <<97, 98>>, <<66, 97>>, <<>> }

CountPool == (0 - 1)..MaxCount

SeqsUpTo(S, n) == UNION { [1..k -> S] : k \in 0..n }

----------------------------------------------------------------------------
(* Strings *)

Min(a, b) == IF a < b THEN a ELSE b
Max(a, b) == IF a > b THEN a ELSE b

\* one character of str.lower()
LowerChar(c) == IF c \in 65..90 THEN c + 32 ELSE c

lower(s) == [i \in 1..Len(s) |-> LowerChar(s[i])]

IsSpace(c) == c \in {9, 10, 11, 12, 13, 32}

\* Python's  w in s
Contains(w, s) ==
    \E i \in 0..(Len(s) - Len(w)) : SubSeq(s, i + 1, i + Len(w)) = w

\* Python's  a < b  on str: lexicographic by code point
StrLess(a, b) ==
    \E i \in 1..(Min(Len(a), Len(b)) + 1) :
        /\ \A j \in 1..(i - 1) : a[j] = b[j]
        /\ \/ i = Len(a) + 1 /\ i <= Len(b)
           \/ i <= Len(a) /\ i <= Len(b) /\ a[i] < b[i]

RECURSIVE SplitFrom(_, _, _)
\* str.split(): the maximal runs of non-whitespace characters, in order
SplitFrom(s, i, cur) ==
    IF i > Len(s)
    THEN IF cur = <<>> THEN <<>> ELSE <<cur>>
    ELSE IF IsSpace(s[i])
         THEN (IF cur = <<>> THEN <<>> ELSE <<cur>>) \o SplitFrom(s, i + 1, <<>>)
         ELSE SplitFrom(s, i + 1, Append(cur, s[i]))

split(s) == SplitFrom(s, 1, <<>>)

RECURSIVE join(_)
\* ' '.join(words)
join(words) ==
    IF words = <<>> THEN <<>>
    ELSE IF Len(words) = 1 THEN words[1]
    ELSE words[1] \o <<32>> \o join(Tail(words))

RECURSIVE lstrip(_)
lstrip(s) == IF s # <<>> /\ IsSpace(s[1]) THEN lstrip(Tail(s)) ELSE s

RECURSIVE rstrip(_)
rstrip(s) ==
    IF s # <<>> /\ IsSpace(s[Len(s)]) THEN rstrip(SubSeq(s, 1, Len(s) - 1)) ELSE s

strip(s) == rstrip(lstrip(s))

\* Python's  s[:n]  for any integer n
SliceTo(s, n) ==
    IF n >= 0 THEN SubSeq(s, 1, Min(n, Len(s)))
    ELSE SubSeq(s, 1, Max(Len(s) + n, 0))

----------------------------------------------------------------------------
(* get_package_info *)

\* what the metadata endpoint can answer to one GET: the request raises
\* (network error, timeout), or a status arrives with a body that is JSON or
\* not; summary is <<>> when info.summary is absent, else <<the string>>
MetadataReplies ==
    { [raised |-> TRUE, status |-> 0, valid_json |-> FALSE, summary |-> <<>>],
      [raised |-> FALSE, status |-> 404, valid_json |-> TRUE, summary |-> <<>>],
      [raised |-> FALSE, status |-> 200, valid_json |-> FALSE, summary |-> <<>>],
      [raised |-> FALSE, status |-> 200, valid_json |-> TRUE, summary |-> <<>>],
      [raised |-> FALSE, status |-> 200, valid_json |-> TRUE, summary |-> << <<>> >>],
      [raised |-> FALSE, status |-> 200, valid_json |-> TRUE,
       summary |-> << <<32, 100>> >>] }

\* the lookup did not yield a JSON document with status 200
LookupFailed(reply) == reply.raised \/ reply.status # 200 \/ ~reply.valid_json

get_package_info(reply) ==
    IF reply.raised THEN NoDescription
    ELSE IF reply.status = 200
    THEN IF ~reply.valid_json THEN NoDescription
         ELSE LET summary == IF reply.summary = <<>> THEN NoDescription
                             ELSE reply.summary[1]
              IN  IF summary # <<>>
                  THEN SliceTo(strip(summary), SummaryLimit)
                  ELSE NoDescription
    ELSE NoDescription

----------------------------------------------------------------------------
(* search_packages *)

NoResponse == [raised |-> FALSE, status |-> 0, entries |-> <<>>]

\* what the listing endpoint can answer
ListingReplies ==
    { [raised |-> TRUE, status |-> 0, entries |-> <<>>],
      [raised |-> FALSE, status |-> 404, entries |-> <<>>] }
    \cup { [raised |-> FALSE, status |-> 200, entries |-> e] :
             e \in SeqsUpTo(EntryPool, MaxListing) }

\* re.findall(r'<a href="/simple/([^/]+)/">', response.text)
findall(entries) ==
    SelectSeq(entries,
              LAMBDA name : name # <<>> /\ \A i \in 1..Len(name) : name[i] # 47)

search_words(term) == split(lower(term))

\* lines 45-54
matches(names, term) ==
    LET words == search_words(term)
    IN  IF Len(words) = 1
        THEN SelectSeq(names, LAMBDA pkg : Contains(words[1], lower(pkg)))
        ELSE SelectSeq(names,
                 LAMBDA pkg : \E w \in 1..Len(words) : Contains(words[w], lower(pkg)))

exact_matches(names, term) ==
    SelectSeq(matches(names, term), LAMBDA pkg : lower(pkg) = lower(term))

\* sum(1 for word in search_words if word in pkg_lower)
score(pkg, words) ==
    Cardinality({ w \in 1..Len(words) : Contains(words[w], lower(pkg)) })

\* the sort key (-score, pkg.lower())
match_score(pkg, words) == << 0 - score(pkg, words), lower(pkg) >>

\* Python's  k1 < k2  on the key tuples
KeyLess(k1, k2) == k1[1] < k2[1] \/ (k1[1] = k2[1] /\ StrLess(k1[2], k2[2]))

\* list.sort(key=...) and sorted() are stable: the 1-based position that s[i]
\* takes in the sorted list, keys[i] being the sort key of s[i]
SortedPos(keys, i) ==
    1 + Cardinality({ j \in 1..Len(keys) :
                        \/ KeyLess(keys[j], keys[i])
                        \/ ~KeyLess(keys[i], keys[j]) /\ j < i })

StableSort(s, keys) ==
    [p \in 1..Len(s) |-> s[CHOOSE i \in 1..Len(s) : SortedPos(keys, i) = p]]

\* lines 60-69; sorted() without a key compares the names themselves, written
\* here as keys whose first component is the same for all
partial_matches(names, term) ==
    LET words == search_words(term)
        rest == SelectSeq(matches(names, term), LAMBDA pkg : lower(pkg) # lower(term))
    IN  IF Len(words) > 1
        THEN StableSort(rest, [i \in 1..Len(rest) |-> match_score(rest[i], words)])
        ELSE StableSort(rest, [i \in 1..Len(rest) |-> <<0, rest[i]>>])

\* the value search_packages returns for a listing reply
search_packages(term, reply) ==
    IF reply.raised \/ reply.status # 200 THEN <<>>
    ELSE LET names == findall(reply.entries)
         IN  exact_matches(names, term) \o partial_matches(names, term)

----------------------------------------------------------------------------
(* main *)

Line(kind, name, star, desc) ==
    [kind |-> kind, name |-> name, star |-> star, desc |-> desc]

\* the result lines printed so far
ResultLines == SelectSeq(stdout, LAMBDA l : l.kind = "result")

NewFuture(pkg) ==
    [pkg |-> pkg, state |-> "pending", failed |-> FALSE, result |-> <<>>,
     collected |-> FALSE]

\* the process is started with a command line
Init ==
    /\ pc = "start"
    /\ search_terms \in SeqsUpTo(ArgPool, MaxArgs)
    /\ count_opt \in {<<>>} \cup { <<n>> : n \in CountPool }
    /\ count = DefaultCount
    /\ search_term = <<>>
    /\ response = NoResponse
    /\ ranked = <<>>
    /\ packages = <<>>
    /\ futures = <<>>
    /\ package_info = <<>>
    /\ key_order = <<>>
    /\ key_writes = <<>>
    /\ stdout = <<>>
    /\ listing_requests = 0
    /\ metadata_requests = 0
    /\ exit_code = 0 - 1

\* parser.parse_args() with nargs='+' and no search term: usage, exit status 2
UsageError ==
    /\ pc = "start"
    /\ search_terms = <<>>
    /\ stdout' = Append(stdout, Line("usage", <<>>, FALSE, <<>>))
    /\ exit_code' = 2
    /\ pc' = "done"
    /\ UNCHANGED <<search_terms, count_opt, count, search_term, response, ranked,
                   packages, futures, package_info, key_order, key_writes,
                   listing_requests, metadata_requests>>

\* lines 104-107: parse_args() and the join of the search terms
ParseArgs ==
    /\ pc = "start"
    /\ search_terms # <<>>
    /\ count' = IF count_opt = <<>> THEN DefaultCount ELSE count_opt[1]
    /\ search_term' = join(search_terms)
    /\ pc' = "search"
    /\ UNCHANGED <<search_terms, count_opt, response, ranked, packages, futures,
                   package_info, key_order, key_writes, stdout, listing_requests,
                   metadata_requests, exit_code>>

\* line 35: the GET of the listing and its reply
FetchListing ==
    /\ pc = "search"
    /\ \E reply \in ListingReplies : response' = reply
    /\ listing_requests' = listing_requests + 1
    /\ pc' = "fetched"
    /\ UNCHANGED <<search_terms, count_opt, count, search_term, ranked, packages,
                   futures, package_info, key_order, key_writes, stdout, metadata_requests,
                   exit_code>>

\* lines 36-75: the rest of search_packages, up to its return statement
RankListing ==
    /\ pc = "fetched"
    /\ ranked' = search_packages(search_term, response)
    /\ stdout' = IF response.raised
                 THEN Append(stdout, Line("error", <<>>, FALSE, <<>>))
                 ELSE stdout
    /\ pc' = "ranked"
    /\ UNCHANGED <<search_terms, count_opt, count, search_term, response, packages,
                   futures, package_info, key_order, key_writes, listing_requests,
                   metadata_requests, exit_code>>

\* the test written as  packages is None, which an empty list never passes
NothingFoundIsNone == FALSE

\* line 112: if not packages
NothingFound == ranked = <<>>

\* lines 112-114
NoPackagesFound ==
    /\ pc = "ranked"
    /\ NothingFound
    /\ stdout' = Append(stdout, Line("none_found", <<>>, FALSE, <<>>))
    /\ response' = NoResponse
    /\ exit_code' = 0
    /\ pc' = "done"
    /\ UNCHANGED <<search_terms, count_opt, count, search_term, ranked, packages,
                   futures, package_info, key_order, key_writes, listing_requests,
                   metadata_requests>>

\* line 117: packages = packages[:args.count]
LimitResults ==
    /\ pc = "ranked"
    /\ ~NothingFound
    /\ packages' = SliceTo(ranked, count)
    /\ response' = NoResponse
    /\ pc' = "limited"
    /\ UNCHANGED <<search_terms, count_opt, count, search_term, ranked, futures,
                   package_info, key_order, key_writes, stdout, listing_requests,
                   metadata_requests, exit_code>>

\* line 124: one future per entry of packages
Submit ==
    /\ pc = "limited"
    /\ futures' = [i \in 1..Len(packages) |-> NewFuture(packages[i])]
    /\ pc' = "pool"
    /\ UNCHANGED <<search_terms, count_opt, count, search_term, response, ranked,
                   packages, package_info, key_order, key_writes, stdout, listing_requests,
                   metadata_requests, exit_code>>

Running == { i \in 1..Len(futures) : futures[i].state = "running" }
Pending == { i \in 1..Len(futures) : futures[i].state = "pending" }

\* a worker thread takes the oldest queued lookup and sends its GET (line 17)
StartLookup ==
    /\ pc = "pool"
    /\ Pending # {}
    /\ Cardinality(Running) < max_workers
    /\ LET i == CHOOSE j \in Pending : \A k \in Pending : j <= k
       IN  futures' = [futures EXCEPT ![i].state = "running"]
    /\ metadata_requests' = metadata_requests + 1
    /\ UNCHANGED <<pc, search_terms, count_opt, count, search_term, response, ranked,
                   packages, package_info, key_order, key_writes, stdout, listing_requests,
                   exit_code>>

\* lines 17-29: the reply arrives and get_package_info returns
CompleteLookup(i) ==
    /\ pc = "pool"
    /\ futures[i].state = "running"
    /\ \E reply \in MetadataReplies :
         futures' = [futures EXCEPT ![i].state = "done",
                                    ![i].failed = LookupFailed(reply),
                                    ![i].result = get_package_info(reply)]
    /\ UNCHANGED <<pc, search_terms, count_opt, count, search_term, response, ranked,
                   packages, package_info, key_order, key_writes, stdout, listing_requests,
                   metadata_requests, exit_code>>

\* lines 126-130: as_completed yields a finished future, its result is stored
Collect(i) ==
    /\ pc = "pool"
    /\ futures[i].state = "done"
    /\ ~futures[i].collected
    /\ LET pkg == futures[i].pkg
       IN  /\ package_info' = (pkg :> futures[i].result) @@ package_info
           /\ key_writes' =
                (pkg :> (IF pkg \in DOMAIN key_writes THEN key_writes[pkg] + 1 ELSE 1))
                @@ key_writes
           /\ key_order' = IF pkg \in DOMAIN package_info THEN key_order
                           ELSE Append(key_order, pkg)
    /\ futures' = [futures EXCEPT ![i].collected = TRUE]
    /\ UNCHANGED <<pc, search_terms, count_opt, count, search_term, response, ranked,
                   packages, stdout, listing_requests, metadata_requests, exit_code>>

\* leaving the pool as soon as one lookup has been collected
PoolJoinedAfterFirst ==
    futures = <<>> \/ \E i \in 1..Len(futures) : futures[i].collected

\* the as_completed loop has yielded every future and the with block has
\* shut the executor down (wait=True)
PoolJoined ==
    \A i \in 1..Len(futures) : futures[i].state = "done" /\ futures[i].collected

\* lines 123-133: leaving the with block
Join ==
    /\ pc = "pool"
    /\ PoolJoined
    /\ pc' = "display"
    /\ UNCHANGED <<search_terms, count_opt, count, search_term, response, ranked,
                   packages, futures, package_info, key_order, key_writes, stdout,
                   listing_requests, metadata_requests, exit_code>>

\* the loop written as  for pkg in package_info
DisplayOrderOfDict == key_order

\* line 135: for pkg in packages
DisplayOrder == packages

\* the comparison written without the two lower() calls
IsExactMatchCaseSensitive(pkg) == pkg = search_term

\* line 139: pkg.lower() == search_term.lower()
IsExactMatch(pkg) == lower(pkg) = lower(search_term)

\* line 136: package_info.get(pkg, 'No description available')
DescriptionOf(pkg) ==
    IF pkg \in DOMAIN package_info THEN package_info[pkg] ELSE NoDescription

\* lines 135-142: one turn of the display loop
PrintResult ==
    /\ pc = "display"
    /\ Len(ResultLines) < Len(DisplayOrder)
    /\ LET pkg == DisplayOrder[Len(ResultLines) + 1]
       IN  stdout' = Append(stdout,
                        Line("result", pkg, IsExactMatch(pkg), DescriptionOf(pkg)))
    /\ UNCHANGED <<pc, search_terms, count_opt, count, search_term, response, ranked,
                   packages, futures, package_info, key_order, key_writes, listing_requests,
                   metadata_requests, exit_code>>

\* main returns
Finish ==
    /\ pc = "display"
    /\ Len(ResultLines) >= Len(DisplayOrder)
    /\ exit_code' = 0
    /\ pc' = "done"
    /\ UNCHANGED <<search_terms, count_opt, count, search_term, response, ranked,
                   packages, futures, package_info, key_order, key_writes, stdout,
                   listing_requests, metadata_requests>>

Next ==
    \/ UsageError
    \/ ParseArgs
    \/ FetchListing
    \/ RankListing
    \/ NoPackagesFound
    \/ LimitResults
    \/ Submit
    \/ StartLookup
    \/ \E i \in 1..Len(futures) : CompleteLookup(i)
    \/ \E i \in 1..Len(futures) : Collect(i)
    \/ Join
    \/ PrintResult
    \/ Finish

Spec == Init /\ [][Next]_vars

----------------------------------------------------------------------------
(* Properties *)

\* the query as the command line gives it: the words joined by single spaces
JoinedQuery == join(search_terms)

QueryWords == split(lower(JoinedQuery))

Range(s) == { s[i] : i \in 1..Len(s) }

\* the main thread is past line 117
Limited == pc \in {"limited", "pool", "display"} \/ (pc = "done" /\ ranked # <<>>)

\* C1: the names of the printed result lines are, in order, the ranked and
\* truncated list, whatever the order in which the lookups were collected:
\* while printing they are a prefix of it, at the end they are all of it.
C1_PrintedOrderIsRankedOrder ==
    /\ Len(ResultLines) <= Len(packages)
    /\ \A i \in 1..Len(ResultLines) : ResultLines[i].name = packages[i]
    /\ (pc = "done" /\ exit_code = 0) => Len(ResultLines) = Len(packages)

\* C1 witness: all results printed after the lookups were collected in an
\* order that is not the ranked order
C1_Witness ==
    /\ pc = "done"
    /\ Len(packages) >= 2
    /\ Len(ResultLines) = Len(packages)
    /\ Len(key_order) = Len(packages)
    /\ key_order # packages

\* C2: once a result line is printed, every entry of packages has a
\* submitted lookup and every lookup has finished and been collected.
C2_NoResultBeforeJoin ==
    ResultLines # <<>> =>
        /\ Len(futures) = Len(packages)
        /\ \A i \in 1..Len(futures) :
             futures[i].state = "done" /\ futures[i].collected

\* C2 witness: results printed in a run in which a lookup failed
C2_Witness ==
    /\ Len(ResultLines) >= 2
    /\ \E i \in 1..Len(futures) : futures[i].failed
    /\ \E i \in 1..Len(futures) : ~futures[i].failed

\* C3: the truncated list has length min(k, n) and is a prefix of the ranked
\* list, for every count n the command line accepts.
C3_TruncatedLength ==
    Limited =>
        /\ Len(packages) = Min(Len(ranked), count)
        /\ \A i \in 1..Len(packages) : i <= Len(ranked) /\ packages[i] = ranked[i]

\* the number of distinct query words that are substrings of the lowercased name
DistinctMatchCount(pkg) ==
    Cardinality({ w \in Range(QueryWords) : Contains(w, lower(pkg)) })

IsCandidate(pkg) == \E w \in Range(QueryWords) : Contains(w, lower(pkg))

IsExact(pkg) == lower(pkg) = lower(JoinedQuery)

\* search_packages has computed its return value from a listing it received
Ranked200 == pc = "ranked" /\ ~response.raised /\ response.status = 200

\* C4: for a query of two or more words the result holds exactly the listed
\* candidates, and its non-exact entries are in descending order of the number
\* of distinct matching words, ties in ascending order of the lowercased name.
C4_MultiWordOrder ==
    (Ranked200 /\ Len(QueryWords) >= 2) =>
        /\ Range(ranked) = { n \in Range(findall(response.entries)) : IsCandidate(n) }
        /\ \A i, j \in 1..Len(ranked) :
             (i < j /\ ~IsExact(ranked[i]) /\ ~IsExact(ranked[j])) =>
                \/ DistinctMatchCount(ranked[i]) > DistinctMatchCount(ranked[j])
                \/ /\ DistinctMatchCount(ranked[i]) = DistinctMatchCount(ranked[j])
                   /\ ~StrLess(lower(ranked[j]), lower(ranked[i]))

\* C5: for a single-word query the result is the exact matches in listing
\* order followed by the other candidates in ascending case-insensitive order.
C5_SingleWordOrder ==
    (Ranked200 /\ Len(QueryWords) = 1) =>
        LET names == findall(response.entries)
            exact == SelectSeq(names, LAMBDA n : IsCandidate(n) /\ IsExact(n))
        IN  /\ Len(ranked) >= Len(exact)
            /\ SubSeq(ranked, 1, Len(exact)) = exact
            /\ Range(ranked) = { n \in Range(names) : IsCandidate(n) }
            /\ \A i, j \in (Len(exact) + 1)..Len(ranked) :
                 i < j => ~StrLess(lower(ranked[j]), lower(ranked[i]))

\* C6: when the run is over, the line of every package whose lookup failed
\* shows 'No description available', and the run ended with exit code 0.
C6_FailedLookupShowsPlaceholder ==
    (pc = "done" /\ futures # <<>>) =>
        /\ exit_code = 0
        /\ \A i \in 1..Len(futures) :
             futures[i].failed =>
                /\ i <= Len(ResultLines)
                /\ ResultLines[i].desc = NoDescription

\* C7: a run whose listing fetch failed, or whose listing has no entry, or no
\* entry matching the query, has nothing to rank; such a run ends with
\* 'No packages found' as its last line, no result line, no metadata lookup
\* and exit code 0.
C7_NoPackagesFound ==
    /\ (pc = "ranked" /\ \/ response.raised
                         \/ response.status # 200
                         \/ findall(response.entries) = <<>>
                         \/ \A n \in Range(findall(response.entries)) : ~IsCandidate(n))
         => ranked = <<>>
    /\ (pc = "done" /\ search_terms # <<>> /\ ranked = <<>>) =>
         /\ stdout # <<>>
         /\ stdout[Len(stdout)].kind = "none_found"
         /\ ResultLines = <<>>
         /\ metadata_requests = 0
         /\ futures = <<>>
         /\ exit_code = 0

\* C7 witness: the run ended after a listing fetch that raised
C7_Witness ==
    /\ pc = "done"
    /\ listing_requests = 1
    /\ \E i \in 1..Len(stdout) : stdout[i].kind = "error"
    /\ stdout[Len(stdout)].kind = "none_found"

\* C8: a printed result line carries the asterisk exactly when the lowercased
\* name equals the lowercased query (the command-line words joined by spaces).
C8_ExactMarker ==
    \A i \in 1..Len(ResultLines) :
        ResultLines[i].star <=> (lower(ResultLines[i].name) = lower(JoinedQuery))

\* C8 witness: a marked and an unmarked line printed for a query that is not
\* in lower case
C8_Witness ==
    /\ JoinedQuery # lower(JoinedQuery)
    /\ \E i \in 1..Len(ResultLines) : ResultLines[i].star
    /\ \E i \in 1..Len(ResultLines) : ~ResultLines[i].star

\* the query has no character that is not whitespace
WhitespaceOnly == search_terms # <<>> /\ split(JoinedQuery) = <<>>

\* C9: a query made only of whitespace never reaches search_packages: no
\* listing request is sent and the run ends as a usage error.
C9_WhitespaceQueryRejected ==
    WhitespaceOnly =>
        /\ listing_requests = 0
        /\ pc \notin {"fetched", "ranked"}
        /\ pc = "done" => exit_code # 0

\* C10: every key of the name-to-description mapping is written exactly once.
C10_KeysWrittenOnce ==
    \A k \in DOMAIN key_writes : key_writes[k] = 1

====
